---- MODULE Spec2Model ----
(***************************************************************************)
(* Model of odd_collector/adapters/redshift/mappers/metadata.py:           *)
(* the three merge-join aligners (MetadataSchemas, MetadataTables,         *)
(* MetadataColumns), the MetadataTable.dependencies property and the       *)
(* _append_metadata_extension helper.                                      *)
(*                                                                         *)
(* Python lists are sequences; a Python index i is position i + 1.         *)
(* Python values are tagged records, so that None, strings and integers    *)
(* can be compared with each other.                                        *)
(***************************************************************************)
EXTENDS Integers, Sequences, FiniteSets, TLC

\* ------------------------------------------------------------------------
\* Bounds of the model
\* ------------------------------------------------------------------------
\* longest base list given to an aligner
MaxBase == 3
\* largest total number of rows in the auxiliary lists of one aligner call
MaxAuxRows == 2
\* most table identifiers the SQL parser returns for one definition
MaxTables == 2
\* longest output list of _append_metadata_extension
MaxExtensions == 2
\* most elements appended, in all, to the lists of the tables of one call
MaxOwned == 2

\* ------------------------------------------------------------------------
\* Python values
\* ------------------------------------------------------------------------
None == [type |-> "NoneType"]

S(s) == [type |-> "str", value |-> s]

I(n) == [type |-> "int", value |-> n]

B(b) == [type |-> "bool", value |-> b]

L(s) == [type |-> "list", value |-> s]

d1 == S("d1")

d2 == S("d2")

s1 == S("s1")

s2 == S("s2")

t1 == S("t1")

t2 == S("t2")

p1 == S("p1")

p2 == S("p2")

SeqUpTo(U, n) == UNION {[1..k -> U] : k \in 0..n}

\* lst[index] of Python for 0 <= index: the element, or IndexError
GetItem(lst, index) ==
    IF index < Len(lst)
    THEN [raised |-> "none", value |-> lst[index + 1]]
    ELSE [raised |-> "IndexError", value |-> None]

\* the arguments of Cls(*row) for a class that declares so many fields:
\* TypeError unless the tuple holds one value for each
Starred(got, fields) ==
    IF got.raised = "none" /\ Len(got.value) # fields
    THEN [raised |-> "TypeError", value |-> got.value]
    ELSE got

\* ------------------------------------------------------------------------
\* Source records: positional decoding of a row tuple into a field shape
\* ------------------------------------------------------------------------
MetadataSchemaBase(row) ==
    [database_name |-> row[1], schema_name |-> row[2], schema_owner |-> row[3]]

MetadataSchemaRedshift(row) ==
    [database_name |-> row[1], schema_name |-> row[2], schema_option |-> row[3]]

MetadataSchemaExternal(row) ==
    [databasename |-> row[1], schemaname |-> row[2], esoptions |-> row[3]]

MetadataTableBase(row) ==
    [table_catalog |-> row[1], table_schema |-> row[2], table_name |-> row[3],
     table_type |-> row[4]]

MetadataTableAll(row) ==
    [database_name |-> row[1], schema_name |-> row[2], table_name |-> row[3],
     view_ddl |-> row[4]]

MetadataTableRedshift(row) ==
    [database_name |-> row[1], schema_name |-> row[2], table_name |-> row[3],
     diststyle |-> row[4]]

MetadataTableExternal(row) ==
    [databasename |-> row[1], schemaname |-> row[2], tablename |-> row[3],
     location |-> row[4]]

MetadataTableInfo(row) ==
    [database |-> row[1], schema |-> row[2], table |-> row[3],
     encoded |-> row[4]]

MetadataColumnBase(row) ==
    [database_name |-> row[1], schema_name |-> row[2], table_name |-> row[3],
     column_name |-> row[4], ordinal_position |-> row[5]]

MetadataColumnRedshift(row) ==
    [database_name |-> row[1], schema_name |-> row[2], table_name |-> row[3],
     ordinal_position |-> row[4], encoding |-> row[5]]

MetadataColumnExternal(row) ==
    [databasename |-> row[1], schemaname |-> row[2], tablename |-> row[3],
     columnnum |-> row[4], external_type |-> row[5]]

\* ------------------------------------------------------------------------
\* State
\* ------------------------------------------------------------------------
VARIABLES
    kind,            \* the class being constructed
    args,            \* the arguments of __init__ (the row lists)
    pc,              \* "loop", "done" or "raised"
    row,             \* number of base rows the for loop has consumed
    ms,              \* the local list ms
    all_index,       \* the cursors
    redshift_index,
    external_index,
    info_index,
    items,           \* self.items (None until assigned)
    raised,          \* the exception that left __init__, or "none"
    run,             \* 1 for the first construction, 2 for a repeated one
    first,           \* the items of the first construction (None during it)
    log,             \* what the logger was given, in order
    ret,             \* the latest read of a dependencies property: the table,
                     \* the parser's answer, the value returned, the
                     \* exception raised and the entries logged
    accessed,        \* the positions of the tables whose dependencies were read
    metadata_list,   \* the output list of _append_metadata_extension
    call,            \* the latest call of _append_metadata_extension
    lists            \* the list objects made by default_factory=list, in
                     \* the order they were made

vars == <<kind, args, pc, row, ms, all_index, redshift_index, external_index,
          info_index, items, raised, run, first, log, ret, accessed,
          metadata_list, call, lists>>

\* ------------------------------------------------------------------------
\* Merged objects
\* ------------------------------------------------------------------------
MetadataSchema ==
    [database_name |-> None, schema_name |-> None, base |-> None,
     redshift |-> None, external |-> None]

MetadataColumn ==
    [database_name |-> None, schema_name |-> None, table_name |-> None,
     column_name |-> None, ordinal_position |-> None, base |-> None,
     redshift |-> None, external |-> None]

\* a reference to the n-th list object made
ListAt(n) == [type |-> "list", at |-> n]

\* a bug: one list, made once, is the default of every object
MetadataTableSharedDefault ==
    [database_name |-> None, schema_name |-> None, table_name |-> None,
     base |-> None, all |-> None, redshift |-> None, external |-> None,
     info |-> None, columns |-> ListAt(1), primary_keys |-> ListAt(2)]

\* MetadataTable(): columns and primary_keys refer to the two lists that
\* default_factory makes for this object, the next two to be made
MetadataTable ==
    [database_name |-> None, schema_name |-> None, table_name |-> None,
     base |-> None, all |-> None, redshift |-> None, external |-> None,
     info |-> None, columns |-> ListAt(Len(lists) + 1),
     primary_keys |-> ListAt(Len(lists) + 2)]

\* ------------------------------------------------------------------------
\* Rows the query layer can hand to the aligners
\* ------------------------------------------------------------------------
SchemaBaseRows == {<<d1, s1, p1>>, <<d1, s2, p1>>, <<d2, s1, p1>>}

SchemaRedshiftRows == {<<d1, s1, p1>>, <<d1, s1, p2>>, <<d1, s2, p1>>}

SchemaExternalRows == {<<d1, s1, p1>>, <<d2, s1, p1>>, <<d2, s1, p2>>}

\* a view definition, as the sequence of its tokens
ViewDdl == S(<<"SELECT", "(", "x", ")", "FROM", "foo">>)

EmptyDdl == S(<<>>)

TableBaseRows == {<<d1, s1, t1, p1>>, <<d1, s1, t2, p1>>, <<d2, s1, t1, p1>>}

TableAllRows ==
    {<<d1, s1, t1, ViewDdl>>, <<d1, s1, t2, None>>, <<d2, s1, t1, EmptyDdl>>}

TableRedshiftRows == {<<d1, s1, t1, p1>>, <<d1, s1, t2, p1>>}

TableExternalRows == {<<d1, s1, t1, p1>>, <<d2, s1, t1, p1>>}

TableInfoRows == {<<d1, s1, t1, p1>>, <<d1, s1, t1, p2>>}

ColumnBaseRows ==
    {<<d1, s1, t1, S("c1"), I(1)>>, <<d1, s1, t1, S("c2"), I(2)>>,
     <<d1, s1, t2, S("c1"), I(1)>>}

ColumnRedshiftRows ==
    {<<d1, s1, t1, I(1), p1>>, <<d1, s1, t1, I(2), p1>>, <<d1, s1, t2, I(1), p1>>}

ColumnExternalRows ==
    {<<d1, s1, t1, I(1), p1>>, <<d1, s1, t1, I(1), p2>>, <<d1, s1, t2, I(1), p1>>}

\* ------------------------------------------------------------------------
\* The blocks of one loop iteration.  Each block yields the slot it leaves
\* on m, the cursor it leaves, and the exception it raises ("none" if none).
\* ------------------------------------------------------------------------
\* a block that is not reached because an earlier one raised
NotReached(index) == [slot |-> None, index |-> index, raised |-> "none"]

\* the first exception of a sequence of blocks
FirstRaised(blocks) ==
    IF \E k \in 1..Len(blocks) : blocks[k].raised # "none"
    THEN blocks[CHOOSE k \in 1..Len(blocks) :
                    /\ blocks[k].raised # "none"
                    /\ \A j \in 1..(k - 1) : blocks[j].raised = "none"].raised
    ELSE "none"

\* ------------------------------------------------------------------------
\* MetadataSchemas.__init__
\* ------------------------------------------------------------------------
\* m after the base row is decoded and the identity copied from it
SchemasNew(schema) ==
    LET base == MetadataSchemaBase(schema) IN
    [MetadataSchema EXCEPT !.base = base,
                           !.database_name = base.database_name,
                           !.schema_name = base.schema_name]

\* a bug: the bounds test admits the position one past the end
SchemasRedshiftOffByOne(m, schemas_redshift, index) ==
    IF index <= Len(schemas_redshift)
    THEN LET got == Starred(GetItem(schemas_redshift, index), 3)
             mredshift == MetadataSchemaRedshift(got.value)
         IN  IF got.raised # "none"
             THEN [slot |-> None, index |-> index, raised |-> got.raised]
             ELSE IF /\ mredshift.database_name = m.database_name
                     /\ mredshift.schema_name = m.schema_name
                  THEN [slot |-> mredshift, index |-> index + 1, raised |-> "none"]
                  ELSE [slot |-> None, index |-> index, raised |-> "none"]
    ELSE [slot |-> None, index |-> index, raised |-> "none"]

SchemasRedshift(m, schemas_redshift, index) ==
    IF index < Len(schemas_redshift)
    THEN LET got == Starred(GetItem(schemas_redshift, index), 3)
             mredshift == MetadataSchemaRedshift(got.value)
         IN  IF got.raised # "none"
             THEN [slot |-> None, index |-> index, raised |-> got.raised]
             ELSE IF /\ mredshift.database_name = m.database_name
                     /\ mredshift.schema_name = m.schema_name
                  THEN [slot |-> mredshift, index |-> index + 1, raised |-> "none"]
                  ELSE [slot |-> None, index |-> index, raised |-> "none"]
    ELSE [slot |-> None, index |-> index, raised |-> "none"]

\* a bug: rows that do not match are skipped until one matches
SchemasExternalSkipAhead(m, schemas_external, index) ==
    LET hits == {k \in index..(Len(schemas_external) - 1) :
                    LET x == MetadataSchemaExternal(schemas_external[k + 1])
                    IN  /\ x.databasename = m.database_name
                        /\ x.schemaname = m.schema_name}
    IN  IF hits # {}
        THEN LET k == CHOOSE h \in hits : \A g \in hits : h <= g
             IN  [slot |-> MetadataSchemaExternal(schemas_external[k + 1]),
                  index |-> k + 1, raised |-> "none"]
        ELSE [slot |-> None, index |-> index, raised |-> "none"]

SchemasExternal(m, schemas_external, index) ==
    IF index < Len(schemas_external)
    THEN LET got == Starred(GetItem(schemas_external, index), 3)
             mexternal == MetadataSchemaExternal(got.value)
         IN  IF got.raised # "none"
             THEN [slot |-> None, index |-> index, raised |-> got.raised]
             ELSE IF /\ mexternal.databasename = m.database_name
                     /\ mexternal.schemaname = m.schema_name
                  THEN [slot |-> mexternal, index |-> index + 1, raised |-> "none"]
                  ELSE [slot |-> None, index |-> index, raised |-> "none"]
    ELSE [slot |-> None, index |-> index, raised |-> "none"]

\* one iteration of "for schema in schemas_base"
MetadataSchemasStep ==
    /\ kind = "MetadataSchemas"
    /\ pc = "loop"
    /\ row < Len(args.schemas_base)
    /\ LET schema == Starred(GetItem(args.schemas_base, row), 3)
           m0 == IF schema.raised = "none"
                 THEN SchemasNew(schema.value)
                 ELSE MetadataSchema
           r  == IF schema.raised = "none"
                 THEN SchemasRedshift(m0, args.schemas_redshift, redshift_index)
                 ELSE NotReached(redshift_index)
           e  == IF FirstRaised(<<schema, r>>) = "none"
                 THEN SchemasExternal(m0, args.schemas_external, external_index)
                 ELSE NotReached(external_index)
           exc == FirstRaised(<<schema, r, e>>)
       IN  /\ ms' = Append(ms, [m0 EXCEPT !.redshift = r.slot,
                                          !.external = e.slot])
           /\ redshift_index' = r.index
           /\ external_index' = e.index
           /\ raised' = exc
           /\ pc' = IF exc = "none" THEN "loop" ELSE "raised"
           /\ row' = IF exc = "none" THEN row + 1 ELSE row
    /\ UNCHANGED <<kind, args, all_index, info_index, items, run, first,
                   log, ret, accessed, metadata_list, call, lists>>

\* a bug: only the objects some auxiliary row was attached to are kept
MetadataSchemasFinishMatchedOnly ==
    /\ kind = "MetadataSchemas"
    /\ pc = "loop"
    /\ row = Len(args.schemas_base)
    /\ items' = SelectSeq(ms, LAMBDA m : m.redshift # None \/ m.external # None)
    /\ pc' = "done"
    /\ UNCHANGED <<kind, args, row, ms, all_index, redshift_index,
                   external_index, info_index, raised, run, first,
                   log, ret, accessed, metadata_list, call, lists>>

\* "self.items = ms" once the base list is exhausted
MetadataSchemasFinish ==
    /\ kind = "MetadataSchemas"
    /\ pc = "loop"
    /\ row = Len(args.schemas_base)
    /\ items' = ms
    /\ pc' = "done"
    /\ UNCHANGED <<kind, args, row, ms, all_index, redshift_index,
                   external_index, info_index, raised, run, first,
                   log, ret, accessed, metadata_list, call, lists>>

\* ------------------------------------------------------------------------
\* MetadataTables.__init__
\* ------------------------------------------------------------------------
\* a bug: the schema name is copied from the catalog field
TablesNewSchemaFromCatalog(table) ==
    LET base == MetadataTableBase(table) IN
    [MetadataTable EXCEPT !.base = base,
                          !.database_name = base.table_catalog,
                          !.schema_name = base.table_catalog,
                          !.table_name = base.table_name]

TablesNew(table) ==
    LET base == MetadataTableBase(table) IN
    [MetadataTable EXCEPT !.base = base,
                          !.database_name = base.table_catalog,
                          !.schema_name = base.table_schema,
                          !.table_name = base.table_name]

\* a bug: the cursor is not advanced after a match
TablesAllNoAdvance(m, tables_all, index) ==
    IF index < Len(tables_all)
    THEN LET got == Starred(GetItem(tables_all, index), 4)
             mall == MetadataTableAll(got.value)
         IN  IF got.raised # "none"
             THEN [slot |-> None, index |-> index, raised |-> got.raised]
             ELSE IF /\ mall.database_name = m.database_name
                     /\ mall.schema_name = m.schema_name
                     /\ mall.table_name = m.table_name
                  THEN [slot |-> mall, index |-> index, raised |-> "none"]
                  ELSE [slot |-> None, index |-> index, raised |-> "none"]
    ELSE [slot |-> None, index |-> index, raised |-> "none"]

\* a bug: the row at the cursor is decoded before the bounds test
TablesAllDecodeFirst(m, tables_all, index) ==
    LET got == Starred(GetItem(tables_all, index), 4)
        mall == MetadataTableAll(got.value)
    IN  IF got.raised # "none"
        THEN [slot |-> None, index |-> index, raised |-> got.raised]
        ELSE IF /\ index < Len(tables_all)
                /\ mall.database_name = m.database_name
                /\ mall.schema_name = m.schema_name
                /\ mall.table_name = m.table_name
             THEN [slot |-> mall, index |-> index + 1, raised |-> "none"]
             ELSE [slot |-> None, index |-> index, raised |-> "none"]

TablesAll(m, tables_all, index) ==
    IF index < Len(tables_all)
    THEN LET got == Starred(GetItem(tables_all, index), 4)
             mall == MetadataTableAll(got.value)
         IN  IF got.raised # "none"
             THEN [slot |-> None, index |-> index, raised |-> got.raised]
             ELSE IF /\ mall.database_name = m.database_name
                     /\ mall.schema_name = m.schema_name
                     /\ mall.table_name = m.table_name
                  THEN [slot |-> mall, index |-> index + 1, raised |-> "none"]
                  ELSE [slot |-> None, index |-> index, raised |-> "none"]
    ELSE [slot |-> None, index |-> index, raised |-> "none"]

\* a bug: the cursor stays on the row after a match
TablesRedshiftNoAdvance(m, tables_redshift, index) ==
    IF index < Len(tables_redshift)
    THEN LET got == Starred(GetItem(tables_redshift, index), 4)
             mredshift == MetadataTableRedshift(got.value)
         IN  IF got.raised # "none"
             THEN [slot |-> None, index |-> index, raised |-> got.raised]
             ELSE IF /\ mredshift.database_name = m.database_name
                     /\ mredshift.schema_name = m.schema_name
                     /\ mredshift.table_name = m.table_name
                  THEN [slot |-> mredshift, index |-> index, raised |-> "none"]
                  ELSE [slot |-> None, index |-> index, raised |-> "none"]
    ELSE [slot |-> None, index |-> index, raised |-> "none"]

\* a bug: the cursor is advanced whether or not the row matched
TablesRedshiftAlwaysAdvance(m, tables_redshift, index) ==
    IF index < Len(tables_redshift)
    THEN LET got == Starred(GetItem(tables_redshift, index), 4)
             mredshift == MetadataTableRedshift(got.value)
         IN  IF got.raised # "none"
             THEN [slot |-> None, index |-> index, raised |-> got.raised]
             ELSE IF /\ mredshift.database_name = m.database_name
                     /\ mredshift.schema_name = m.schema_name
                     /\ mredshift.table_name = m.table_name
                  THEN [slot |-> mredshift, index |-> index + 1, raised |-> "none"]
                  ELSE [slot |-> None, index |-> index + 1, raised |-> "none"]
    ELSE [slot |-> None, index |-> index, raised |-> "none"]

TablesRedshift(m, tables_redshift, index) ==
    IF index < Len(tables_redshift)
    THEN LET got == Starred(GetItem(tables_redshift, index), 4)
             mredshift == MetadataTableRedshift(got.value)
         IN  IF got.raised # "none"
             THEN [slot |-> None, index |-> index, raised |-> got.raised]
             ELSE IF /\ mredshift.database_name = m.database_name
                     /\ mredshift.schema_name = m.schema_name
                     /\ mredshift.table_name = m.table_name
                  THEN [slot |-> mredshift, index |-> index + 1, raised |-> "none"]
                  ELSE [slot |-> None, index |-> index, raised |-> "none"]
    ELSE [slot |-> None, index |-> index, raised |-> "none"]

TablesExternal(m, tables_external, index) ==
    IF index < Len(tables_external)
    THEN LET got == Starred(GetItem(tables_external, index), 4)
             mexternal == MetadataTableExternal(got.value)
         IN  IF got.raised # "none"
             THEN [slot |-> None, index |-> index, raised |-> got.raised]
             ELSE IF /\ mexternal.databasename = m.database_name
                     /\ mexternal.schemaname = m.schema_name
                     /\ mexternal.tablename = m.table_name
                  THEN [slot |-> mexternal, index |-> index + 1, raised |-> "none"]
                  ELSE [slot |-> None, index |-> index, raised |-> "none"]
    ELSE [slot |-> None, index |-> index, raised |-> "none"]

TablesInfo(m, tables_info, index) ==
    IF index < Len(tables_info)
    THEN LET got == Starred(GetItem(tables_info, index), 4)
             minfo == MetadataTableInfo(got.value)
         IN  IF got.raised # "none"
             THEN [slot |-> None, index |-> index, raised |-> got.raised]
             ELSE IF /\ minfo.database = m.database_name
                     /\ minfo.schema = m.schema_name
                     /\ minfo.table = m.table_name
                  THEN [slot |-> minfo, index |-> index + 1, raised |-> "none"]
                  ELSE [slot |-> None, index |-> index, raised |-> "none"]
    ELSE [slot |-> None, index |-> index, raised |-> "none"]

\* a bug: the blocks are chained with elif, so a source is tried only if
\* no earlier source matched
MetadataTablesStepElif ==
    /\ kind = "MetadataTables"
    /\ pc = "loop"
    /\ row < Len(args.tables_base)
    /\ LET table == Starred(GetItem(args.tables_base, row), 4)
           m0 == IF table.raised = "none"
                 THEN TablesNew(table.value)
                 ELSE MetadataTable
           a  == IF table.raised = "none"
                 THEN TablesAll(m0, args.tables_all, all_index)
                 ELSE NotReached(all_index)
           r  == IF FirstRaised(<<table, a>>) = "none" /\ a.slot = None
                 THEN TablesRedshift(m0, args.tables_redshift, redshift_index)
                 ELSE NotReached(redshift_index)
           e  == IF /\ FirstRaised(<<table, a, r>>) = "none"
                    /\ a.slot = None
                    /\ r.slot = None
                 THEN TablesExternal(m0, args.tables_external, external_index)
                 ELSE NotReached(external_index)
           i  == IF /\ FirstRaised(<<table, a, r, e>>) = "none"
                    /\ a.slot = None
                    /\ r.slot = None
                    /\ e.slot = None
                 THEN TablesInfo(m0, args.tables_info, info_index)
                 ELSE NotReached(info_index)
           exc == FirstRaised(<<table, a, r, e, i>>)
       IN  /\ ms' = Append(ms, [m0 EXCEPT !.all = a.slot,
                                          !.redshift = r.slot,
                                          !.external = e.slot,
                                          !.info = i.slot])
           /\ all_index' = a.index
           /\ redshift_index' = r.index
           /\ external_index' = e.index
           /\ info_index' = i.index
           /\ raised' = exc
           /\ pc' = IF exc = "none" THEN "loop" ELSE "raised"
           /\ row' = IF exc = "none" THEN row + 1 ELSE row
    /\ lists' = lists \o <<<<>>, <<>>>>
    /\ UNCHANGED <<kind, args, items, run, first,
                   log, ret, accessed, metadata_list, call>>

\* one iteration of "for table in tables_base"
MetadataTablesStep ==
    /\ kind = "MetadataTables"
    /\ pc = "loop"
    /\ row < Len(args.tables_base)
    /\ LET table == Starred(GetItem(args.tables_base, row), 4)
           m0 == IF table.raised = "none"
                 THEN TablesNew(table.value)
                 ELSE MetadataTable
           a  == IF table.raised = "none"
                 THEN TablesAll(m0, args.tables_all, all_index)
                 ELSE NotReached(all_index)
           r  == IF FirstRaised(<<table, a>>) = "none"
                 THEN TablesRedshift(m0, args.tables_redshift, redshift_index)
                 ELSE NotReached(redshift_index)
           e  == IF FirstRaised(<<table, a, r>>) = "none"
                 THEN TablesExternal(m0, args.tables_external, external_index)
                 ELSE NotReached(external_index)
           i  == IF FirstRaised(<<table, a, r, e>>) = "none"
                 THEN TablesInfo(m0, args.tables_info, info_index)
                 ELSE NotReached(info_index)
           exc == FirstRaised(<<table, a, r, e, i>>)
       IN  /\ ms' = Append(ms, [m0 EXCEPT !.all = a.slot,
                                          !.redshift = r.slot,
                                          !.external = e.slot,
                                          !.info = i.slot])
           /\ all_index' = a.index
           /\ redshift_index' = r.index
           /\ external_index' = e.index
           /\ info_index' = i.index
           /\ raised' = exc
           /\ pc' = IF exc = "none" THEN "loop" ELSE "raised"
           /\ row' = IF exc = "none" THEN row + 1 ELSE row
    /\ lists' = lists \o <<<<>>, <<>>>>
    /\ UNCHANGED <<kind, args, items, run, first,
                   log, ret, accessed, metadata_list, call>>

MetadataTablesFinish ==
    /\ kind = "MetadataTables"
    /\ pc = "loop"
    /\ row = Len(args.tables_base)
    /\ items' = ms
    /\ pc' = "done"
    /\ UNCHANGED <<kind, args, row, ms, all_index, redshift_index,
                   external_index, info_index, raised, run, first,
                   log, ret, accessed, metadata_list, call, lists>>

\* ------------------------------------------------------------------------
\* MetadataColumns.__init__
\* ------------------------------------------------------------------------
ColumnsNew(column) ==
    LET base == MetadataColumnBase(column) IN
    [MetadataColumn EXCEPT !.base = base,
                           !.database_name = base.database_name,
                           !.schema_name = base.schema_name,
                           !.table_name = base.table_name,
                           !.column_name = base.column_name,
                           !.ordinal_position = base.ordinal_position]

\* a bug: the ordinal position is left out of the comparison
ColumnsRedshiftNoOrdinal(m, columns_redshift, index) ==
    IF index < Len(columns_redshift)
    THEN LET got == Starred(GetItem(columns_redshift, index), 5)
             mredshift == MetadataColumnRedshift(got.value)
         IN  IF got.raised # "none"
             THEN [slot |-> None, index |-> index, raised |-> got.raised]
             ELSE IF /\ mredshift.database_name = m.database_name
                     /\ mredshift.schema_name = m.schema_name
                     /\ mredshift.table_name = m.table_name
                  THEN [slot |-> mredshift, index |-> index + 1, raised |-> "none"]
                  ELSE [slot |-> None, index |-> index, raised |-> "none"]
    ELSE [slot |-> None, index |-> index, raised |-> "none"]

ColumnsRedshift(m, columns_redshift, index) ==
    IF index < Len(columns_redshift)
    THEN LET got == Starred(GetItem(columns_redshift, index), 5)
             mredshift == MetadataColumnRedshift(got.value)
         IN  IF got.raised # "none"
             THEN [slot |-> None, index |-> index, raised |-> got.raised]
             ELSE IF /\ mredshift.database_name = m.database_name
                     /\ mredshift.schema_name = m.schema_name
                     /\ mredshift.table_name = m.table_name
                     /\ mredshift.ordinal_position = m.ordinal_position
                  THEN [slot |-> mredshift, index |-> index + 1, raised |-> "none"]
                  ELSE [slot |-> None, index |-> index, raised |-> "none"]
    ELSE [slot |-> None, index |-> index, raised |-> "none"]

\* a bug: rows that do not match are passed over until one matches
ColumnsExternalSkipAhead(m, columns_external, index) ==
    LET hits == {k \in index..(Len(columns_external) - 1) :
                    LET x == MetadataColumnExternal(columns_external[k + 1])
                    IN  /\ x.databasename = m.database_name
                        /\ x.schemaname = m.schema_name
                        /\ x.tablename = m.table_name
                        /\ x.columnnum = m.ordinal_position}
    IN  IF hits # {}
        THEN LET k == CHOOSE h \in hits : \A g \in hits : h <= g
             IN  [slot |-> MetadataColumnExternal(columns_external[k + 1]),
                  index |-> k + 1, raised |-> "none"]
        ELSE [slot |-> None, index |-> index, raised |-> "none"]

ColumnsExternal(m, columns_external, index) ==
    IF index < Len(columns_external)
    THEN LET got == Starred(GetItem(columns_external, index), 5)
             mexternal == MetadataColumnExternal(got.value)
         IN  IF got.raised # "none"
             THEN [slot |-> None, index |-> index, raised |-> got.raised]
             ELSE IF /\ mexternal.databasename = m.database_name
                     /\ mexternal.schemaname = m.schema_name
                     /\ mexternal.tablename = m.table_name
                     /\ mexternal.columnnum = m.ordinal_position
                  THEN [slot |-> mexternal, index |-> index + 1, raised |-> "none"]
                  ELSE [slot |-> None, index |-> index, raised |-> "none"]
    ELSE [slot |-> None, index |-> index, raised |-> "none"]

\* one iteration of "for column in columns"
MetadataColumnsStep ==
    /\ kind = "MetadataColumns"
    /\ pc = "loop"
    /\ row < Len(args.columns)
    /\ LET column == Starred(GetItem(args.columns, row), 5)
           m0 == IF column.raised = "none"
                 THEN ColumnsNew(column.value)
                 ELSE MetadataColumn
           r  == IF column.raised = "none"
                 THEN ColumnsRedshift(m0, args.columns_redshift, redshift_index)
                 ELSE NotReached(redshift_index)
           e  == IF FirstRaised(<<column, r>>) = "none"
                 THEN ColumnsExternal(m0, args.columns_external, external_index)
                 ELSE NotReached(external_index)
           exc == FirstRaised(<<column, r, e>>)
       IN  /\ ms' = Append(ms, [m0 EXCEPT !.redshift = r.slot,
                                          !.external = e.slot])
           /\ redshift_index' = r.index
           /\ external_index' = e.index
           /\ raised' = exc
           /\ pc' = IF exc = "none" THEN "loop" ELSE "raised"
           /\ row' = IF exc = "none" THEN row + 1 ELSE row
    /\ UNCHANGED <<kind, args, all_index, info_index, items, run, first,
                   log, ret, accessed, metadata_list, call, lists>>

MetadataColumnsFinish ==
    /\ kind = "MetadataColumns"
    /\ pc = "loop"
    /\ row = Len(args.columns)
    /\ items' = ms
    /\ pc' = "done"
    /\ UNCHANGED <<kind, args, row, ms, all_index, redshift_index,
                   external_index, info_index, raised, run, first,
                   log, ret, accessed, metadata_list, call, lists>>

\* ------------------------------------------------------------------------
\* The calls: the arguments of each constructor
\* ------------------------------------------------------------------------
InitSchemas ==
    /\ kind = "MetadataSchemas"
    /\ \E lr \in 0..MaxAuxRows : \E le \in 0..(MaxAuxRows - lr) :
       \E b \in SeqUpTo(SchemaBaseRows, MaxBase),
          r \in [1..lr -> SchemaRedshiftRows],
          e \in [1..le -> SchemaExternalRows] :
          args = [schemas_base |-> b, schemas_redshift |-> r,
                  schemas_external |-> e]

InitTables ==
    /\ kind = "MetadataTables"
    /\ \E la \in 0..MaxAuxRows : \E lr \in 0..(MaxAuxRows - la) :
       \E le \in 0..(MaxAuxRows - la - lr) :
       \E li \in 0..(MaxAuxRows - la - lr - le) :
       \E b \in SeqUpTo(TableBaseRows, MaxBase),
          a \in [1..la -> TableAllRows],
          r \in [1..lr -> TableRedshiftRows],
          e \in [1..le -> TableExternalRows],
          i \in [1..li -> TableInfoRows] :
          args = [tables_base |-> b, tables_all |-> a, tables_redshift |-> r,
                  tables_external |-> e, tables_info |-> i]

\* the table aligner given the "all" source only
InitTablesAll ==
    /\ kind = "MetadataTables"
    /\ \E b \in SeqUpTo(TableBaseRows, MaxBase),
          a \in SeqUpTo(TableAllRows, MaxAuxRows) :
          args = [tables_base |-> b, tables_all |-> a, tables_redshift |-> <<>>,
                  tables_external |-> <<>>, tables_info |-> <<>>]

InitColumns ==
    /\ kind = "MetadataColumns"
    /\ \E lr \in 0..MaxAuxRows : \E le \in 0..(MaxAuxRows - lr) :
       \E b \in SeqUpTo(ColumnBaseRows, MaxBase),
          r \in [1..lr -> ColumnRedshiftRows],
          e \in [1..le -> ColumnExternalRows] :
          args = [columns |-> b, columns_redshift |-> r,
                  columns_external |-> e]

\* the locals at the top of each __init__
Locals ==
    /\ pc = "loop"
    /\ row = 0
    /\ ms = <<>>
    /\ all_index = 0
    /\ redshift_index = 0
    /\ external_index = 0
    /\ info_index = 0
    /\ items = None
    /\ raised = "none"
    /\ run = 1
    /\ first = None

\* ------------------------------------------------------------------------
\* MetadataTable.dependencies
\* ------------------------------------------------------------------------
\* Strings the property works on are sequences of tokens: a definition is
\* the sequence of its words and punctuation, a table identifier is its
\* components with a "." between them.
Public == <<"public">>

Dependency(name, schema) == [name |-> name, schema |-> schema]

\* bool(v) of Python for None and for strings
Truthy(v) == ~(v = None \/ (v.type = "str" /\ v.value = <<>>))

\* text.replace(old, "") for a one-token old
Replace(text, old) == SelectSeq(text, LAMBDA c : c # old)

\* text.split(sep)
RECURSIVE Split(_, _)
Split(text, sep) ==
    IF \A k \in 1..Len(text) : text[k] # sep
    THEN <<text>>
    ELSE LET k == CHOOSE h \in 1..Len(text) :
                      /\ text[h] = sep
                      /\ \A g \in 1..(h - 1) : text[g] # sep
         IN  <<SubSeq(text, 1, k - 1)>>
                 \o Split(SubSeq(text, k + 1, Len(text)), sep)

\* the table identifiers the parser can be given back
Identifiers == {<<"foo">>, <<"s1", ".", "foo">>, <<"a", ".", "b", ".", "c">>}

NotParsed == [called |-> FALSE, text |-> <<>>, raises |-> FALSE, tables |-> <<>>]

\* Parser(text).tables of sql_metadata: an exception, or a list of table
\* identifiers; which one is the library's choice
ParserTables(text) ==
    {[called |-> TRUE, text |-> text, raises |-> TRUE, tables |-> <<>>]}
        \cup {[called |-> TRUE, text |-> text, raises |-> FALSE, tables |-> ts] :
                ts \in SeqUpTo(Identifiers, MaxTables)}

Warning(table) == [level |-> "warning", about |-> table]

Exception(view_ddl) == [level |-> "exception", about |-> view_ddl]

\* a bug: "break" in place of "continue" after the warning
ForTablesBreak(tables, dependencies, logged) ==
    LET stop == {k \in 1..Len(tables) : Len(Split(tables[k], ".")) > 2}
        n == IF stop = {} THEN Len(tables)
             ELSE CHOOSE k \in stop : \A h \in stop : k <= h
        dep(table) == LET schema_name == Split(table, ".")
                      IN  IF Len(schema_name) = 2
                          THEN Dependency(schema_name[2], schema_name[1])
                          ELSE Dependency(schema_name[1], Public)
    IN  [dependencies |->
             dependencies \o [k \in 1..(IF stop = {} THEN n ELSE n - 1) |->
                                 dep(tables[k])],
         logged |-> IF stop = {} THEN logged
                    ELSE Append(logged, Warning(tables[n]))]

\* "for table in parsed.tables": the dependencies and the log entries of the
\* loop, given those of the iterations already made
RECURSIVE ForTables(_, _, _)
ForTables(tables, dependencies, logged) ==
    IF tables = <<>>
    THEN [dependencies |-> dependencies, logged |-> logged]
    ELSE LET table == Head(tables)
             schema_name == Split(table, ".")
         IN  IF Len(schema_name) > 2
             THEN ForTables(Tail(tables), dependencies,
                            Append(logged, Warning(table)))
             ELSE IF Len(schema_name) = 2
                  THEN ForTables(Tail(tables),
                                 Append(dependencies,
                                        Dependency(schema_name[2], schema_name[1])),
                                 logged)
                  ELSE ForTables(Tail(tables),
                                 Append(dependencies,
                                        Dependency(schema_name[1], Public)),
                                 logged)

\* a bug: the except clause logs and raises the exception again
ExceptHandlerReraise(self, parsed) ==
    IF self.all = None
    THEN [parsed |-> parsed, value |-> None, raised |-> "AttributeError",
          logged |-> <<>>]
    ELSE [parsed |-> parsed, value |-> None, raised |-> "Exception",
          logged |-> <<Exception(self.all.view_ddl)>>]

\* the except clause: what is logged, returned and raised
ExceptHandler(self, parsed) ==
    IF self.all = None
    THEN [parsed |-> parsed, value |-> None, raised |-> "AttributeError",
          logged |-> <<>>]
    ELSE [parsed |-> parsed, value |-> L(<<>>), raised |-> "none",
          logged |-> <<Exception(self.all.view_ddl)>>]

\* the try block on the parser's answer
TryParsed(self, parsed) ==
    IF parsed.raises
    THEN ExceptHandler(self, parsed)
    ELSE LET loop == ForTables(parsed.tables, <<>>, <<>>)
         IN  [parsed |-> parsed, value |-> L(loop.dependencies),
              raised |-> "none", logged |-> loop.logged]

NoAccess ==
    [obj |-> 0, parsed |-> NotParsed, value |-> None, raised |-> "none",
     logged |-> <<>>]

\* one read of items[i].dependencies; the tables are read in list order,
\* each once
Dependencies(i) ==
    /\ kind = "MetadataTables"
    /\ pc = "done"
    /\ i \in 1..Len(items)
    /\ accessed = 1..(i - 1)
    /\ LET self == items[i]
       IN  \E out \in
               IF self.all = None
               THEN {ExceptHandler(self, NotParsed)}
               ELSE IF ~Truthy(self.all.view_ddl)
                    THEN {[parsed |-> NotParsed, value |-> L(<<>>),
                           raised |-> "none", logged |-> <<>>]}
                    ELSE {TryParsed(self, parsed) :
                            parsed \in ParserTables(
                                Replace(Replace(self.all.view_ddl.value, "("), ")"))} :
               /\ ret' = [obj |-> i, parsed |-> out.parsed, value |-> out.value,
                          raised |-> out.raised, logged |-> out.logged]
               /\ log' = log \o out.logged
    /\ accessed' = accessed \cup {i}
    /\ UNCHANGED <<kind, args, pc, row, ms, all_index, redshift_index,
                   external_index, info_index, items, raised, run, first,
                   metadata_list, call, lists>>

\* ------------------------------------------------------------------------
\* _append_metadata_extension
\* ------------------------------------------------------------------------
MetadataExtension(schema_url, metadata) ==
    [schema_url |-> schema_url, metadata |-> metadata]

\* asdict of a dataclass instance: the mapping of its field names
asdict(metadata_dataclass) ==
    [k \in DOMAIN metadata_dataclass |-> metadata_dataclass[k]]

\* the dict after "for key in excluded_keys: metadata.pop(key)"
Popped(metadata, excluded_keys) ==
    [k \in (DOMAIN metadata) \ excluded_keys |-> metadata[k]]

\* a bug: "if value" in place of "if value is not None" (shown on numbers
\* and booleans: 0 and False are dropped too)
WithoutNoneFalsy(metadata) ==
    [k \in {f \in DOMAIN metadata :
                /\ metadata[f] # None
                /\ metadata[f] # I(0)
                /\ metadata[f] # B(FALSE)} |-> metadata[k]]

\* the dict metadata_wo_none built from metadata
WithoutNone(metadata) ==
    [k \in {f \in DOMAIN metadata : metadata[f] # None} |-> metadata[k]]

\* the slots, the schema urls and the exclusion sets of the calls
Slots ==
    {MetadataTableAll(r) : r \in TableAllRows}
        \cup {MetadataColumnRedshift(<<d1, s1, t1, I(0), None>>),
              MetadataTableInfo(<<d1, s1, t1, B(FALSE)>>)}

SchemaUrls == {"url_all", "url_info"}

ExcludedKeys == SUBSET {"database", "view_ddl", "encoded"}

NoCall ==
    [schema_url |-> "", metadata_dataclass |-> None, excluded_keys |-> {},
     given |-> FALSE, raised |-> "none"]

\* a bug: the extension is appended before the excluded keys are removed
AppendPresentAppendFirst(list, schema_url, metadata_dataclass, given, excluded_keys) ==
    LET metadata == asdict(metadata_dataclass)
        appended == Append(list, MetadataExtension(schema_url,
                               WithoutNone(IF given
                                           THEN Popped(metadata, excluded_keys)
                                           ELSE metadata)))
    IN  IF given /\ ~(excluded_keys \subseteq DOMAIN metadata)
        THEN [list |-> appended, raised |-> "KeyError"]
        ELSE [list |-> appended, raised |-> "none"]

\* the body of the function on a present slot: the list and the error
AppendPresent(list, schema_url, metadata_dataclass, given, excluded_keys) ==
    LET metadata == asdict(metadata_dataclass)
    IN  IF given /\ ~(excluded_keys \subseteq DOMAIN metadata)
        THEN [list |-> list, raised |-> "KeyError"]
        ELSE LET kept == IF given THEN Popped(metadata, excluded_keys)
                         ELSE metadata
             IN  [list |-> Append(list,
                                  MetadataExtension(schema_url, WithoutNone(kept))),
                  raised |-> "none"]

\* one call; "given" tells whether an exclusion set is passed
AppendMetadataExtension ==
    /\ kind = "_append_metadata_extension"
    /\ Len(metadata_list) < MaxExtensions
    /\ \E schema_url \in SchemaUrls, metadata_dataclass \in Slots \cup {None},
          given \in BOOLEAN, excluded_keys \in ExcludedKeys :
          /\ given \/ excluded_keys = {}
          /\ LET out == IF metadata_dataclass # None
                        THEN AppendPresent(metadata_list, schema_url,
                                           metadata_dataclass, given, excluded_keys)
                        ELSE [list |-> metadata_list, raised |-> "none"]
             IN  /\ metadata_list' = out.list
                 /\ call' = [schema_url |-> schema_url,
                             metadata_dataclass |-> metadata_dataclass,
                             excluded_keys |-> excluded_keys,
                             given |-> given, raised |-> out.raised]
    /\ UNCHANGED <<kind, args, pc, row, ms, all_index, redshift_index,
                   external_index, info_index, items, raised, run, first,
                   log, ret, accessed, lists>>

\* nothing logged, no dependencies read, no extension appended yet
Untouched ==
    /\ log = <<>>
    /\ ret = NoAccess
    /\ accessed = {}
    /\ metadata_list = <<>>
    /\ call = NoCall
    /\ lists = <<>>

\* ------------------------------------------------------------------------
\* The same constructor called a second time on the same arguments: the
\* locals are set anew at the top of __init__, the arguments are the same.
\* ------------------------------------------------------------------------
MetadataSchemasAgain ==
    /\ kind = "MetadataSchemas"
    /\ pc = "done"
    /\ run = 1
    /\ run' = 2
    /\ first' = items
    /\ items' = None
    /\ ms' = <<>>
    /\ redshift_index' = 0
    /\ external_index' = 0
    /\ row' = 0
    /\ pc' = "loop"
    /\ UNCHANGED <<kind, args, all_index, info_index, raised,
                   log, ret, accessed, metadata_list, call, lists>>

\* a bug: the cursor of the "all" source outlives the call
MetadataTablesAgainKeepCursor ==
    /\ kind = "MetadataTables"
    /\ pc = "done"
    /\ run = 1
    /\ run' = 2
    /\ first' = items
    /\ items' = None
    /\ ms' = <<>>
    /\ redshift_index' = 0
    /\ external_index' = 0
    /\ info_index' = 0
    /\ row' = 0
    /\ pc' = "loop"
    /\ UNCHANGED <<kind, args, all_index, raised,
                   log, ret, accessed, metadata_list, call, lists>>

MetadataTablesAgain ==
    /\ kind = "MetadataTables"
    /\ pc = "done"
    /\ run = 1
    /\ run' = 2
    /\ first' = items
    /\ items' = None
    /\ ms' = <<>>
    /\ all_index' = 0
    /\ redshift_index' = 0
    /\ external_index' = 0
    /\ info_index' = 0
    /\ row' = 0
    /\ pc' = "loop"
    /\ UNCHANGED <<kind, args, raised,
                   log, ret, accessed, metadata_list, call, lists>>

MetadataColumnsAgain ==
    /\ kind = "MetadataColumns"
    /\ pc = "done"
    /\ run = 1
    /\ run' = 2
    /\ first' = items
    /\ items' = None
    /\ ms' = <<>>
    /\ redshift_index' = 0
    /\ external_index' = 0
    /\ row' = 0
    /\ pc' = "loop"
    /\ UNCHANGED <<kind, args, all_index, info_index, raised,
                   log, ret, accessed, metadata_list, call, lists>>

\* ------------------------------------------------------------------------
\* Specification: one call of one of the three aligners
\* ------------------------------------------------------------------------
Init == (InitSchemas \/ InitTables \/ InitColumns) /\ Locals /\ Untouched

Next ==
    \/ MetadataSchemasStep
    \/ MetadataSchemasFinish
    \/ MetadataTablesStep
    \/ MetadataTablesFinish
    \/ MetadataColumnsStep
    \/ MetadataColumnsFinish

Spec == Init /\ [][Next]_vars

\* Specification: an aligner called, and then called again on the same lists
NextTwice ==
    \/ Next
    \/ MetadataSchemasAgain
    \/ MetadataTablesAgain
    \/ MetadataColumnsAgain

SpecTwice == Init /\ [][NextTwice]_vars

\* Specification: the table aligner, then the dependencies of its tables,
\* each read once
NextDeps ==
    \/ MetadataTablesStep
    \/ MetadataTablesFinish
    \/ \E i \in 1..MaxBase : Dependencies(i)

InitDeps == InitTablesAll /\ Locals /\ Untouched

SpecDeps == InitDeps /\ [][NextDeps]_vars

\* Specification: the table aligner, then elements appended to the columns
\* and primary_keys of its tables by the code that was given them
RECURSIVE Elements(_)
Elements(ls) == IF ls = <<>> THEN 0 ELSE Len(Head(ls)) + Elements(Tail(ls))

\* items[i].columns.append(column)
ColumnsAppend(i) ==
    /\ kind = "MetadataTables"
    /\ pc = "done"
    /\ i \in 1..Len(items)
    /\ Elements(lists) < MaxOwned
    /\ lists' = [lists EXCEPT ![items[i].columns.at] =
                     Append(@, ColumnsNew(<<d1, s1, t1, S("c1"), I(1)>>))]
    /\ UNCHANGED <<kind, args, pc, row, ms, all_index, redshift_index,
                   external_index, info_index, items, raised, run, first,
                   log, ret, accessed, metadata_list, call>>

\* items[i].primary_keys.append(name)
PrimaryKeysAppend(i) ==
    /\ kind = "MetadataTables"
    /\ pc = "done"
    /\ i \in 1..Len(items)
    /\ Elements(lists) < MaxOwned
    /\ lists' = [lists EXCEPT ![items[i].primary_keys.at] = Append(@, S("c1"))]
    /\ UNCHANGED <<kind, args, pc, row, ms, all_index, redshift_index,
                   external_index, info_index, items, raised, run, first,
                   log, ret, accessed, metadata_list, call>>

NextOwned ==
    \/ MetadataTablesStep
    \/ MetadataTablesFinish
    \/ \E i \in 1..MaxBase : ColumnsAppend(i)
    \/ \E i \in 1..MaxBase : PrimaryKeysAppend(i)

\* the table aligner given rows of the first table in the first and the last
\* of its sources
InitTablesOwned ==
    /\ kind = "MetadataTables"
    /\ \E la \in 0..MaxAuxRows : \E li \in 0..(MaxAuxRows - la) :
       \E b \in SeqUpTo(TableBaseRows, MaxBase) :
          args = [tables_base |-> b,
                  tables_all |-> [j \in 1..la |-> <<d1, s1, t1, ViewDdl>>],
                  tables_redshift |-> <<>>,
                  tables_external |-> <<>>,
                  tables_info |-> [j \in 1..li |-> <<d1, s1, t1, p1>>]]

InitOwned == InitTablesOwned /\ Locals /\ Untouched

SpecOwned == InitOwned /\ [][NextOwned]_vars

\* Specification: calls of _append_metadata_extension on one output list
InitProjector ==
    /\ kind = "_append_metadata_extension"
    /\ args = <<>>
    /\ pc = "done"
    /\ row = 0
    /\ ms = <<>>
    /\ all_index = 0
    /\ redshift_index = 0
    /\ external_index = 0
    /\ info_index = 0
    /\ items = None
    /\ raised = "none"
    /\ run = 1
    /\ first = None
    /\ Untouched

SpecProjector == InitProjector /\ [][AppendMetadataExtension]_vars

\* Specification: one call of one aligner on lists in which a row may hold
\* one value more than its class declares
SchemaBaseRowsAnyArity == {<<d1, s1, p1>>, <<d1, s2, p1>>, <<d1, s1, p1, p1>>}

SchemaRedshiftRowsAnyArity == {<<d1, s1, p1>>, <<d1, s1, p1, p1>>}

SchemaExternalRowsAnyArity == {<<d1, s1, p1>>, <<d1, s1, p1, p1>>}

TableBaseRowsAnyArity ==
    {<<d1, s1, t1, p1>>, <<d1, s1, t2, p1>>, <<d1, s1, t1, p1, p1>>}

TableAllRowsAnyArity == {<<d1, s1, t1, ViewDdl>>, <<d1, s1, t1, ViewDdl, p1>>}

TableRedshiftRowsAnyArity ==
    {<<d1, s1, t1, p1>>, <<d1, s1, t2, p1>>, <<d1, s1, t1, p1, p1>>}

TableExternalRowsAnyArity == {<<d1, s1, t1, p1>>, <<d1, s1, t1, p1, p1>>}

TableInfoRowsAnyArity == {<<d1, s1, t1, p1>>, <<d1, s1, t1, p1, p1>>}

ColumnBaseRowsAnyArity ==
    {<<d1, s1, t1, S("c1"), I(1)>>, <<d1, s1, t1, S("c2"), I(2)>>,
     <<d1, s1, t1, S("c1"), I(1), p1>>}

ColumnRedshiftRowsAnyArity ==
    {<<d1, s1, t1, I(1), p1>>, <<d1, s1, t1, I(1), p1, p1>>}

ColumnExternalRowsAnyArity ==
    {<<d1, s1, t1, I(1), p1>>, <<d1, s1, t1, I(1), p1, p1>>}

InitSchemasAnyArity ==
    /\ kind = "MetadataSchemas"
    /\ \E lr \in 0..MaxAuxRows : \E le \in 0..(MaxAuxRows - lr) :
       \E b \in SeqUpTo(SchemaBaseRowsAnyArity, MaxBase),
          r \in [1..lr -> SchemaRedshiftRowsAnyArity],
          e \in [1..le -> SchemaExternalRowsAnyArity] :
          args = [schemas_base |-> b, schemas_redshift |-> r,
                  schemas_external |-> e]

InitTablesAnyArity ==
    /\ kind = "MetadataTables"
    /\ \E la \in 0..MaxAuxRows : \E lr \in 0..(MaxAuxRows - la) :
       \E le \in 0..(MaxAuxRows - la - lr) :
       \E li \in 0..(MaxAuxRows - la - lr - le) :
       \E b \in SeqUpTo(TableBaseRowsAnyArity, MaxBase),
          a \in [1..la -> TableAllRowsAnyArity],
          r \in [1..lr -> TableRedshiftRowsAnyArity],
          e \in [1..le -> TableExternalRowsAnyArity],
          i \in [1..li -> TableInfoRowsAnyArity] :
          args = [tables_base |-> b, tables_all |-> a, tables_redshift |-> r,
                  tables_external |-> e, tables_info |-> i]

InitColumnsAnyArity ==
    /\ kind = "MetadataColumns"
    /\ \E lr \in 0..MaxAuxRows : \E le \in 0..(MaxAuxRows - lr) :
       \E b \in SeqUpTo(ColumnBaseRowsAnyArity, MaxBase),
          r \in [1..lr -> ColumnRedshiftRowsAnyArity],
          e \in [1..le -> ColumnExternalRowsAnyArity] :
          args = [columns |-> b, columns_redshift |-> r,
                  columns_external |-> e]

InitAnyArity ==
    /\ InitSchemasAnyArity \/ InitTablesAnyArity \/ InitColumnsAnyArity
    /\ Locals
    /\ Untouched

SpecAnyArity == InitAnyArity /\ [][Next]_vars

\* ------------------------------------------------------------------------
\* Vocabulary of the properties
\* ------------------------------------------------------------------------
\* the auxiliary sources of the aligner being run
Sources ==
    IF kind = "MetadataTables"
    THEN {"all", "redshift", "external", "info"}
    ELSE {"redshift", "external"}

BaseList ==
    CASE kind = "MetadataSchemas" -> args.schemas_base
      [] kind = "MetadataTables" -> args.tables_base
      [] kind = "MetadataColumns" -> args.columns

AuxList(a) ==
    CASE kind = "MetadataSchemas" /\ a = "redshift" -> args.schemas_redshift
      [] kind = "MetadataSchemas" /\ a = "external" -> args.schemas_external
      [] kind = "MetadataTables" /\ a = "all" -> args.tables_all
      [] kind = "MetadataTables" /\ a = "redshift" -> args.tables_redshift
      [] kind = "MetadataTables" /\ a = "external" -> args.tables_external
      [] kind = "MetadataTables" /\ a = "info" -> args.tables_info
      [] kind = "MetadataColumns" /\ a = "redshift" -> args.columns_redshift
      [] kind = "MetadataColumns" /\ a = "external" -> args.columns_external

Cursor(a) ==
    CASE a = "all" -> all_index
      [] a = "redshift" -> redshift_index
      [] a = "external" -> external_index
      [] a = "info" -> info_index

\* the value of the cursor of source a in the next state
CursorNext(a) ==
    CASE a = "all" -> all_index'
      [] a = "redshift" -> redshift_index'
      [] a = "external" -> external_index'
      [] a = "info" -> info_index'

Slot(m, a) ==
    CASE a = "all" -> m.all
      [] a = "redshift" -> m.redshift
      [] a = "external" -> m.external
      [] a = "info" -> m.info

DecodeBase(r) ==
    CASE kind = "MetadataSchemas" -> MetadataSchemaBase(r)
      [] kind = "MetadataTables" -> MetadataTableBase(r)
      [] kind = "MetadataColumns" -> MetadataColumnBase(r)

DecodeAux(a, r) ==
    CASE kind = "MetadataSchemas" /\ a = "redshift" -> MetadataSchemaRedshift(r)
      [] kind = "MetadataSchemas" /\ a = "external" -> MetadataSchemaExternal(r)
      [] kind = "MetadataTables" /\ a = "all" -> MetadataTableAll(r)
      [] kind = "MetadataTables" /\ a = "redshift" -> MetadataTableRedshift(r)
      [] kind = "MetadataTables" /\ a = "external" -> MetadataTableExternal(r)
      [] kind = "MetadataTables" /\ a = "info" -> MetadataTableInfo(r)
      [] kind = "MetadataColumns" /\ a = "redshift" -> MetadataColumnRedshift(r)
      [] kind = "MetadataColumns" /\ a = "external" -> MetadataColumnExternal(r)

\* the identity key of a merged object: its canonical fields
ObjKey(m) ==
    CASE kind = "MetadataSchemas" -> <<m.database_name, m.schema_name>>
      [] kind = "MetadataTables" ->
            <<m.database_name, m.schema_name, m.table_name>>
      [] kind = "MetadataColumns" ->
            <<m.database_name, m.schema_name, m.table_name, m.ordinal_position>>

\* the identity key of a base record, read through the base's field names
BaseKey(b) ==
    CASE kind = "MetadataSchemas" -> <<b.database_name, b.schema_name>>
      [] kind = "MetadataTables" ->
            <<b.table_catalog, b.table_schema, b.table_name>>
      [] kind = "MetadataColumns" ->
            <<b.database_name, b.schema_name, b.table_name, b.ordinal_position>>

\* the identity key of an auxiliary record, read through its own field names
AuxKey(a, x) ==
    CASE kind = "MetadataSchemas" /\ a = "redshift" ->
            <<x.database_name, x.schema_name>>
      [] kind = "MetadataSchemas" /\ a = "external" ->
            <<x.databasename, x.schemaname>>
      [] kind = "MetadataTables" /\ a \in {"all", "redshift"} ->
            <<x.database_name, x.schema_name, x.table_name>>
      [] kind = "MetadataTables" /\ a = "external" ->
            <<x.databasename, x.schemaname, x.tablename>>
      [] kind = "MetadataTables" /\ a = "info" ->
            <<x.database, x.schema, x.table>>
      [] kind = "MetadataColumns" /\ a = "redshift" ->
            <<x.database_name, x.schema_name, x.table_name, x.ordinal_position>>
      [] kind = "MetadataColumns" /\ a = "external" ->
            <<x.databasename, x.schemaname, x.tablename, x.columnnum>>

\* the identity keys of the base list and of an auxiliary list, in list order
BaseKeys == [i \in 1..Len(BaseList) |-> BaseKey(DecodeBase(BaseList[i]))]

AuxKeys(a) == [j \in 1..Len(AuxList(a)) |-> AuxKey(a, DecodeAux(a, AuxList(a)[j]))]

NoDuplicates(s) == \A i, j \in 1..Len(s) : s[i] = s[j] => i = j

\* s is t with some elements left out: same elements, same relative order
IsSubsequence(s, t) ==
    \E f \in [1..Len(s) -> 1..Len(t)] :
        /\ \A k \in 1..Len(s) : s[k] = t[f[k]]
        /\ \A k \in 1..(Len(s) - 1) : f[k] < f[k + 1]

\* a loop iteration has just been taken
Iterated == Len(ms') = Len(ms) + 1

\* ------------------------------------------------------------------------
\* Properties
\* ------------------------------------------------------------------------
\* C1: each aligner finishes without raising with one merged object per base
\* row, in base order: items has the length of the base list and the base
\* record of the i-th object is the decoding of the i-th base row.
C1_OnePerBaseRowInOrder ==
    /\ raised = "none"
    /\ pc = "done" =>
         /\ Len(items) = Len(BaseList)
         /\ \A i \in 1..Len(items) : items[i].base = DecodeBase(BaseList[i])

C1_Witness ==
    /\ pc = "done"
    /\ Len(items) = 3
    /\ items[1].base # items[2].base
    /\ \E a \in Sources : Slot(items[2], a) # None
    /\ \E a \in Sources : Slot(items[3], a) = None

\* every base row whose key is among the keys of source a has the row of
\* that key in its slot a, every other base row has the slot empty
SubsetAttached(a) ==
    \A i \in 1..Len(items) :
        IF \E j \in 1..Len(AuxList(a)) : AuxKeys(a)[j] = BaseKeys[i]
        THEN \E j \in 1..Len(AuxList(a)) :
                /\ AuxKeys(a)[j] = BaseKeys[i]
                /\ Slot(items[i], a) = DecodeAux(a, AuxList(a)[j])
        ELSE Slot(items[i], a) = None

\* the auxiliary list of source a has no duplicate keys and its keys are keys
\* of the base list, in the same relative order
CompatibleSubset(a) ==
    /\ NoDuplicates(AuxKeys(a))
    /\ IsSubsequence(AuxKeys(a), BaseKeys)

\* C2 as stated: for every base list and every duplicate-free auxiliary list
\* whose keys are base keys in base order, after alignment exactly the base
\* rows with a key of the auxiliary list have the slot populated.
C2_AsStated ==
    pc = "done" =>
        \A a \in Sources : CompatibleSubset(a) => SubsetAttached(a)

\* C2, amended: the same, for base lists that have no duplicate identity keys.
C2_SubsetAttachedUniqueBase ==
    pc = "done" =>
        \A a \in Sources :
            NoDuplicates(BaseKeys) /\ CompatibleSubset(a) => SubsetAttached(a)

C2_Witness ==
    /\ pc = "done"
    /\ kind = "MetadataSchemas"
    /\ NoDuplicates(BaseKeys)
    /\ Len(items) = 3
    /\ Len(args.schemas_redshift) = 2
    /\ CompatibleSubset("redshift")
    /\ items[1].redshift # None
    /\ items[2].redshift = None
    /\ items[3].redshift # None

\* every populated auxiliary slot of m holds a row of m's own identity key
OwnRowsOnly(m) ==
    \A a \in Sources : Slot(m, a) # None => AuxKey(a, Slot(m, a)) = ObjKey(m)

\* C3: no misattribution, whatever the auxiliary lists hold: during and
\* after alignment every populated auxiliary slot holds a row whose identity
\* key, read through that source's field names, is the object's identity key.
C3_NoMisattribution ==
    /\ \A i \in 1..Len(ms) : OwnRowsOnly(ms[i])
    /\ pc = "done" => \A i \in 1..Len(items) : OwnRowsOnly(items[i])

C3_Witness ==
    /\ kind = "MetadataColumns"
    /\ pc = "loop"
    /\ Len(ms) = 2
    /\ ms[1].redshift = None
    /\ ms[2].redshift # None
    /\ ~IsSubsequence(AuxKeys("redshift"), BaseKeys)

\* the row of source a at its cursor, decoded
AtCursor(a) == DecodeAux(a, AuxList(a)[Cursor(a) + 1])

\* C4: while a base row is processed, the slot of each source is populated
\* if and only if the cursor of the source is within bounds and the row at
\* the cursor has the object's identity key; the slot then holds that row.
C4_SlotIffMatchAtCursor ==
    [][Iterated =>
        LET m == ms'[Len(ms')] IN
        \A a \in Sources :
            LET match == /\ Cursor(a) < Len(AuxList(a))
                         /\ AuxKey(a, AtCursor(a)) = ObjKey(m)
            IN  /\ (Slot(m, a) # None) <=> match
                /\ match => Slot(m, a) = AtCursor(a)]_vars

C4_Witness ==
    /\ kind = "MetadataSchemas"
    /\ Len(ms) = 3
    /\ Len(args.schemas_external) = 2
    /\ ms[1].external = None
    /\ ms[2].external = MetadataSchemaExternal(args.schemas_external[1])
    /\ ms[3].external = None
    /\ external_index = 1
    /\ AuxKeys("external")[2] = AuxKeys("external")[1]

\* the fields of an object as == compares them: a list by its elements
FieldValues(m) ==
    IF kind = "MetadataTables"
    THEN [m EXCEPT !.columns = L(lists[m.columns.at]),
                   !.primary_keys = L(lists[m.primary_keys.at])]
    ELSE m

\* C9: an aligner run a second time on the same base list and the same
\* auxiliary lists yields the items of the first run, field for field;
\* nothing of the first run is left in the cursors or in the list.
C9_SecondRunSameItems ==
    /\ run = 2 =>
          \A i \in 1..Len(ms) :
              i <= Len(first) /\ FieldValues(ms[i]) = FieldValues(first[i])
    /\ run = 2 /\ pc = "done" =>
          /\ Len(items) = Len(first)
          /\ \A i \in 1..Len(items) :
                FieldValues(items[i]) = FieldValues(first[i])

C9_Witness ==
    /\ kind = "MetadataTables"
    /\ run = 2
    /\ pc = "done"
    /\ Len(items) = 3
    /\ items[1].all = None
    /\ items[2].all # None
    /\ items[3].info # None
    /\ all_index = 1

\* C10: an empty auxiliary list leaves every slot of its source empty; once
\* a cursor has reached the length of its list it stays there and every
\* object built from a later base row has that slot empty; nothing is
\* raised, in particular no read past the end of an auxiliary list.
C10_ExhaustedSourceStaysEmpty ==
    /\ [](raised = "none")
    /\ [](\A a \in Sources :
            Len(AuxList(a)) = 0 => \A i \in 1..Len(ms) : Slot(ms[i], a) = None)
    /\ [][Iterated =>
            \A a \in Sources :
                Cursor(a) = Len(AuxList(a)) =>
                    /\ CursorNext(a) = Len(AuxList(a))
                    /\ Slot(ms'[Len(ms')], a) = None]_vars

C10_Witness ==
    /\ kind = "MetadataSchemas"
    /\ pc = "done"
    /\ Len(args.schemas_redshift) = 1
    /\ args.schemas_external = <<>>
    /\ Len(items) = 3
    /\ items[1].redshift # None
    /\ BaseKeys[2] = BaseKeys[1]
    /\ items[2].redshift = None
    /\ items[3].redshift = None
    /\ \A i \in 1..3 : items[i].external = None
    /\ redshift_index = 1

\* the table whose dependencies were read last
Read == items[ret.obj]

\* C5 as stated: reading the dependencies of a table whose definition is
\* absent or empty returns an empty list, raises nothing and logs nothing,
\* be the definition None, the empty string, or the "all" record itself absent.
C5_NoDefinitionNoDependencies ==
    (/\ ret.obj # 0
     /\ \/ Read.all = None
        \/ Read.all.view_ddl = None
        \/ Read.all.view_ddl = S(<<>>)) =>
        /\ ret.raised = "none"
        /\ ret.value = L(<<>>)
        /\ ret.logged = <<>>

\* C6: when the parser fails on the definition of a table, the read returns an
\* empty list, logs exactly one exception entry and raises nothing; the read
\* changes no table.
C6_ParseFailureDegradesToEmpty ==
    /\ [](ret.parsed.raises =>
            /\ ret.raised = "none"
            /\ ret.value = L(<<>>)
            /\ ret.logged = <<Exception(Read.all.view_ddl)>>)
    /\ [][pc = "done" => items' = items]_vars

C6_Witness ==
    /\ accessed = {1, 2}
    /\ ret.obj = 2
    /\ ret.parsed.called
    /\ ~ret.parsed.raises
    /\ ret.value # L(<<>>)
    /\ Len(log) = 1
    /\ log[1].level = "exception"

\* the number of components of a table identifier
Components(table) == Cardinality({k \in 1..Len(table) : table[k] = "."}) + 1

\* the dependency of an identifier of one or two components
DependencyOf(table) ==
    IF Components(table) = 1
    THEN [name |-> table, schema |-> <<"public">>]
    ELSE LET dot == CHOOSE k \in 1..Len(table) : table[k] = "."
         IN  [name |-> SubSeq(table, dot + 1, Len(table)),
              schema |-> SubSeq(table, 1, dot - 1)]

\* C7: for the identifiers the parser returns for a non-empty definition, the
\* result is, in parser order, one Dependency per identifier of at most two
\* components (schema "public" for one component); each identifier of more
\* components is skipped with exactly one warning, the later ones are kept.
C7_DependenciesInParserOrder ==
    (ret.parsed.called /\ ~ret.parsed.raises) =>
        LET tables == ret.parsed.tables
            kept == SelectSeq(tables, LAMBDA x : Components(x) <= 2)
            skipped == SelectSeq(tables, LAMBDA x : Components(x) > 2)
        IN  /\ ret.raised = "none"
            /\ ret.value = L([k \in 1..Len(kept) |-> DependencyOf(kept[k])])
            /\ ret.logged = [k \in 1..Len(skipped) |->
                                [level |-> "warning", about |-> skipped[k]]]

C7_Witness ==
    /\ ret.parsed.called
    /\ ret.parsed.tables = <<<<"a", ".", "b", ".", "c">>, <<"s1", ".", "foo">>>>
    /\ ret.value = L(<<[name |-> <<"foo">>, schema |-> <<"s1">>]>>)
    /\ Len(ret.logged) = 1

\* the mapping the claim describes: the fields of the slot that are not
\* excluded and whose value is not None
Projected(c) ==
    LET slot == c.metadata_dataclass
    IN  [k \in {f \in DOMAIN slot :
                    /\ ~(c.given /\ f \in c.excluded_keys)
                    /\ slot[f] # None} |-> slot[k]]

\* what the claim says of a call c
AppendsProjection(c) ==
    IF c.metadata_dataclass = None
    THEN metadata_list' = metadata_list
    ELSE metadata_list' =
             Append(metadata_list,
                    [schema_url |-> c.schema_url, metadata |-> Projected(c)])

\* C8 as stated: a call with a present slot appends exactly one pair at the
\* end, whose mapping holds the slot's fields that are not excluded and not
\* None; a call with an absent slot leaves the list unchanged.
C8_AsStated == [][call' # call => AppendsProjection(call')]_vars

\* C8, amended: the same, for calls whose exclusion set, if one is given,
\* names only fields of the slot.
C8_AppendsProjectionOfFields ==
    [][(/\ call' # call
        /\ (call'.metadata_dataclass # None /\ call'.given) =>
               call'.excluded_keys \subseteq DOMAIN call'.metadata_dataclass) =>
           AppendsProjection(call')]_vars

C8_Witness ==
    /\ Len(metadata_list) = 2
    /\ call.metadata_dataclass = MetadataTableInfo(<<d1, s1, t1, B(FALSE)>>)
    /\ call.given
    /\ call.excluded_keys = {"database"}
    /\ DOMAIN metadata_list[2].metadata = {"schema", "table", "encoded"}
    /\ metadata_list[2].metadata["encoded"] = B(FALSE)
    /\ call.raised = "none"

\* ------------------------------------------------------------------------
\* Errors that leave an aligner
\* ------------------------------------------------------------------------
\* the number of fields the class of a base row declares
BaseFields ==
    CASE kind = "MetadataSchemas" -> 3
      [] kind = "MetadataTables" -> 4
      [] kind = "MetadataColumns" -> 5

\* the classes of the auxiliary rows declare as many as that of the base row
AuxFields(a) == BaseFields

WellFormedBase == \A i \in 1..Len(BaseList) : Len(BaseList[i]) = BaseFields

WellFormedAux(a) ==
    \A j \in 1..Len(AuxList(a)) : Len(AuxList(a)[j]) = AuxFields(a)

\* the row the cursor of source a stands on does not decode
MalformedAtCursor(a) ==
    /\ Cursor(a) < Len(AuxList(a))
    /\ Len(AuxList(a)[Cursor(a) + 1]) # AuxFields(a)

\* C11 as stated: when every base row decodes, nothing is raised, whatever
\* the auxiliary lists contain, rows of the wrong arity included.
C11_AsStated == WellFormedBase => raised = "none" /\ pc # "raised"

\* C11 (amended): the only error that leaves an aligner is the decoding error
\* of a malformed row, either the base row being processed or the auxiliary
\* row a cursor stands on; when every base row and every auxiliary row
\* decodes, nothing is raised.
C11_OnlyDecodingErrors ==
    /\ raised \in {"none", "TypeError"}
    /\ pc = "raised" <=> raised # "none"
    /\ raised = "TypeError" =>
          \/ Len(BaseList[row + 1]) # BaseFields
          \/ \E a \in Sources : MalformedAtCursor(a)
    /\ (WellFormedBase /\ \A a \in Sources : WellFormedAux(a)) =>
          raised = "none"

\* an alignment of well-formed lists that has completed although an auxiliary
\* row matched nothing
C11_Witness ==
    /\ pc = "done"
    /\ WellFormedBase
    /\ \A a \in Sources : WellFormedAux(a)
    /\ \E a \in Sources : Cursor(a) < Len(AuxList(a))
    /\ Len(items) >= 2

\* ------------------------------------------------------------------------
\* The cursors
\* ------------------------------------------------------------------------
\* the number of objects so far whose slot for source a is populated
Populated(a) == Cardinality({k \in 1..Len(ms) : Slot(ms[k], a) # None})

\* the object appended by the iteration
Appended == ms'[Len(ms')]

\* one base table and a redshift list whose first row is that table's; the
\* second row is any row, well-formed or not
OneTableTwoRows ==
    /\ kind = "MetadataTables"
    /\ args.tables_base = <<<<d1, s1, t1, p1>>>>
    /\ Len(args.tables_redshift) = 2
    /\ args.tables_redshift[1] = <<d1, s1, t1, p1>>
    /\ args.tables_all = <<>>
    /\ args.tables_external = <<>>
    /\ args.tables_info = <<>>

\* C12: every cursor starts at 0 and never decreases; an iteration advances
\* it by one if it attached a row of that source to the object of its base
\* row, and leaves it alone otherwise; so each cursor is the number of
\* objects so far whose slot of that source is populated, at most the number
\* of base rows processed.  With one base table t1 and the redshift rows
\* [t1, x] the slot is populated from the first row, the cursor ends at 1
\* and x is never decoded: nothing is raised even if x is malformed.
C12_CursorDiscipline ==
    /\ [](\A a \in Sources : /\ Cursor(a) = Populated(a)
                              /\ Cursor(a) <= Len(ms)
                              /\ (Len(ms) = 0 => Cursor(a) = 0))
    /\ [][\A a \in Sources :
            /\ CursorNext(a) >= Cursor(a)
            /\ IF Iterated /\ Slot(Appended, a) # None
               THEN CursorNext(a) = Cursor(a) + 1
               ELSE CursorNext(a) = Cursor(a)]_vars
    /\ [](OneTableTwoRows =>
            /\ raised = "none"
            /\ pc = "done" =>
                  /\ items[1].redshift = MetadataTableRedshift(<<d1, s1, t1, p1>>)
                  /\ redshift_index = 1)

\* the alignment of base [t1] with the redshift rows [t1, t2] has completed
C12_Witness ==
    /\ OneTableTwoRows
    /\ args.tables_redshift[2] = <<d1, s1, t2, p1>>
    /\ pc = "done"
    /\ redshift_index = 1
    /\ items[1].redshift # None

\* ------------------------------------------------------------------------
\* Identity
\* ------------------------------------------------------------------------
\* the canonical identity fields of a merged object
Identity(m) ==
    CASE kind = "MetadataSchemas" -> <<m.database_name, m.schema_name>>
      [] kind = "MetadataTables" ->
            <<m.database_name, m.schema_name, m.table_name>>
      [] kind = "MetadataColumns" ->
            <<m.database_name, m.schema_name, m.table_name, m.column_name,
              m.ordinal_position>>

\* the fields of a base record the identity is copied from
BaseIdentity(b) ==
    CASE kind = "MetadataSchemas" -> <<b.database_name, b.schema_name>>
      [] kind = "MetadataTables" ->
            <<b.table_catalog, b.table_schema, b.table_name>>
      [] kind = "MetadataColumns" ->
            <<b.database_name, b.schema_name, b.table_name, b.column_name,
              b.ordinal_position>>

\* m is the object of base row i and its identity is that of its base record
IdentityOfOwnBase(m, i) ==
    /\ m.base = DecodeBase(BaseList[i])
    /\ Identity(m) = BaseIdentity(m.base)

\* C13: the identity fields of every merged object equal the corresponding
\* fields of its own base record, during and after alignment, whether or not
\* an auxiliary slot is populated.
C13_IdentityFromBase ==
    /\ \A i \in 1..Len(ms) : IdentityOfOwnBase(ms[i], i)
    /\ pc = "done" => \A i \in 1..Len(items) : IdentityOfOwnBase(items[i], i)

\* a completed alignment with an object every slot of which is populated and
\* an object no slot of which is
C13_Witness ==
    /\ pc = "done"
    /\ \E i \in 1..Len(items) : \A a \in Sources : Slot(items[i], a) # None
    /\ \E i \in 1..Len(items) : \A a \in Sources : Slot(items[i], a) = None

\* ------------------------------------------------------------------------
\* Auxiliary lists in any order
\* ------------------------------------------------------------------------
\* the number of rows of source a whose key is the key of some base row
KeyInBase(a) ==
    Cardinality({j \in 1..Len(AuxList(a)) :
                    \E i \in 1..Len(BaseList) : BaseKeys[i] = AuxKeys(a)[j]})

\* C14: whatever the order of a list of well-formed auxiliary rows, with
\* duplicate keys or keys of no base row, nothing is raised and the source
\* only under-matches: the populated slots of the source are no more than
\* its rows whose key is a base key, and the rows from the cursor on, which
\* did not match where they were scanned, are attached to nothing.
C14_OnlyUnderMatches ==
    /\ raised = "none"
    /\ pc # "raised"
    /\ \A a \in Sources :
          /\ Populated(a) <= KeyInBase(a)
          /\ Populated(a) = Cursor(a)
          /\ Cursor(a) <= Len(AuxList(a))

\* a completed table alignment whose redshift list is out of order and has
\* left a row with a base key unattached
C14_Witness ==
    /\ kind = "MetadataTables"
    /\ pc = "done"
    /\ ~IsSubsequence(AuxKeys("redshift"), BaseKeys)
    /\ Populated("redshift") < KeyInBase("redshift")
    /\ Populated("redshift") > 0

\* ------------------------------------------------------------------------
\* Inputs and lists of the tables
\* ------------------------------------------------------------------------
OwnedFields == {"columns", "primary_keys"}

\* the elements of the list that field f of table i refers to
OwnedList(i, f) == lists[items[i][f].at]

\* the same, in the next state
OwnedListNext(i, f) == lists'[items[i][f].at]

\* C15: no step changes the base list or an auxiliary list; the two lists of
\* a table are empty when the table is made; and a step that changes the
\* list of one field of one table of the result changes no list of another
\* table and not the other list of that table.
C15_InputsAndListsApart ==
    /\ [][args' = args]_vars
    /\ [][Iterated =>
            /\ lists'[Appended.columns.at] = <<>>
            /\ lists'[Appended.primary_keys.at] = <<>>]_vars
    /\ [](pc = "done" /\ Elements(lists) = 0 =>
            \A i \in 1..Len(items), f \in OwnedFields : OwnedList(i, f) = <<>>)
    /\ [][pc = "done" /\ pc' = "done" =>
            \A i, j \in 1..Len(items) : \A f, g \in OwnedFields :
                /\ OwnedListNext(i, f) # OwnedList(i, f)
                /\ <<i, f>> # <<j, g>>
                => OwnedListNext(j, g) = OwnedList(j, g)]_vars

\* a column was appended to the second of three tables and a primary key to
\* the third; the other lists are empty and the arguments had rows to align
C15_Witness ==
    /\ pc = "done"
    /\ Len(items) = 3
    /\ Len(args.tables_all) = 1
    /\ Len(args.tables_info) = 1
    /\ Len(OwnedList(2, "columns")) = 1
    /\ Len(OwnedList(3, "primary_keys")) = 1
    /\ OwnedList(1, "columns") = <<>>
    /\ OwnedList(1, "primary_keys") = <<>>
    /\ OwnedList(2, "primary_keys") = <<>>
    /\ OwnedList(3, "columns") = <<>>

\* ------------------------------------------------------------------------
\* Prefix consumption
\* ------------------------------------------------------------------------
\* the rows of source a attached so far, in the order of their objects
AttachedRows(a) ==
    LET populated == SelectSeq(ms, LAMBDA m : Slot(m, a) # None)
    IN  [k \in 1..Len(populated) |-> Slot(populated[k], a)]

\* the rows of source a before its cursor, decoded, in list order
BeforeCursor(a) == [j \in 1..Cursor(a) |-> DecodeAux(a, AuxList(a)[j])]

\* the row at the cursor of source a has the key of no base row still to come
Stuck(a) ==
    /\ Cursor(a) < Len(AuxList(a))
    /\ \A i \in (Len(ms) + 1)..Len(BaseList) :
          BaseKeys[i] # AuxKeys(a)[Cursor(a) + 1]

\* C16: at every step the rows of a source attached so far, taken in the
\* order of the objects that hold them, are the rows before the cursor in
\* list order, one object each; and once the row at the cursor has the key
\* of no remaining base row the cursor stays, so no later row is attached.
C16_PrefixConsumption ==
    /\ [](\A a \in Sources : /\ Cursor(a) <= Len(AuxList(a))
                              /\ AttachedRows(a) = BeforeCursor(a))
    /\ [][\A a \in Sources : Stuck(a) =>
            /\ CursorNext(a) = Cursor(a)
            /\ Iterated => Slot(Appended, a) = None]_vars

\* a completed column alignment: the first external row was attached, the
\* second has the key of a base row and was not
C16_Witness ==
    /\ kind = "MetadataColumns"
    /\ pc = "done"
    /\ Len(args.columns_external) = 2
    /\ external_index = 1
    /\ \E i \in 1..Len(BaseList) : BaseKeys[i] = AuxKeys("external")[2]
    /\ AuxKeys("external")[2] # AuxKeys("external")[1]

\* ------------------------------------------------------------------------
\* Independence of the sources
\* ------------------------------------------------------------------------
\* The slots that the base rows from position i on get from source a when
\* its cursor is at the given value, worked out from the base list and the
\* list of source a alone.
RECURSIVE Alone(_, _, _)
Alone(a, i, cursor) ==
    IF i > Len(BaseList)
    THEN <<>>
    ELSE LET hit == /\ cursor < Len(AuxList(a))
                    /\ AuxKeys(a)[cursor + 1] = BaseKeys[i]
         IN  IF hit
             THEN <<DecodeAux(a, AuxList(a)[cursor + 1])>>
                      \o Alone(a, i + 1, cursor + 1)
             ELSE <<None>> \o Alone(a, i + 1, cursor)

\* the slots of source a in a list of objects
SlotsOf(objects, a) == [k \in 1..Len(objects) |-> Slot(objects[k], a)]

\* C17: in the table aligner the slots of a source X and the final cursor
\* of X are a function of the base list and the list of X alone.  Any two
\* runs on the same base list and the same list of X therefore agree on
\* them, whatever well-formed lists the other three sources are given.
C17_SourcesIndependent ==
    kind = "MetadataTables" =>
        \A a \in Sources :
            LET alone == Alone(a, 1, 0) IN
            /\ SlotsOf(ms, a) = SubSeq(alone, 1, Len(ms))
            /\ pc = "done" =>
                  /\ SlotsOf(items, a) = alone
                  /\ Cursor(a) = Len(SelectSeq(alone, LAMBDA x : x # None))

\* a completed table alignment in which the row of "all" matched nothing
\* and a row of "redshift" was attached to the second table
C17_Witness ==
    /\ kind = "MetadataTables"
    /\ pc = "done"
    /\ Len(args.tables_all) = 1
    /\ all_index = 0
    /\ Len(args.tables_redshift) = 1
    /\ Len(items) >= 2
    /\ items[2].redshift # None
    /\ args.tables_info = <<>>

\* ------------------------------------------------------------------------
\* A failing call of _append_metadata_extension
\* ------------------------------------------------------------------------
\* call c passes a slot and an exclusion set that names something that is
\* not a field of the slot
ExcludesNonField(c) ==
    /\ c.metadata_dataclass # None
    /\ c.given
    /\ ~(c.excluded_keys \subseteq DOMAIN c.metadata_dataclass)

\* call c passes a slot and excludes nothing but fields of it
ExcludesFieldsOnly(c) ==
    /\ c.metadata_dataclass # None
    /\ c.given => c.excluded_keys \subseteq DOMAIN c.metadata_dataclass

\* C18: a call with a present slot and an exclusion set that names a
\* non-field fails with KeyError and leaves the output list exactly as it
\* was; a call that excludes only fields of the slot does not fail (and
\* appends one extension).
C18_FailureAtomic ==
    [][call' # call \/ metadata_list' # metadata_list =>
        /\ ExcludesNonField(call') =>
              /\ call'.raised = "KeyError"
              /\ metadata_list' = metadata_list
        /\ ExcludesFieldsOnly(call') =>
              /\ call'.raised = "none"
              /\ Len(metadata_list') = Len(metadata_list) + 1
              /\ SubSeq(metadata_list', 1, Len(metadata_list)) = metadata_list
        /\ call'.raised # "none" => ExcludesNonField(call')]_vars

\* a call on a list of one extension failed: the slot has no field
\* "view_ddl"; the list still holds that one extension
C18_Witness ==
    /\ call.raised = "KeyError"
    /\ call.metadata_dataclass = MetadataTableInfo(<<d1, s1, t1, B(FALSE)>>)
    /\ call.excluded_keys = {"encoded", "view_ddl"}
    /\ Len(metadata_list) = 1
====
